---------------------------- MODULE Spec2Model ----------------------------
(***************************************************************************)
(* A model of mac_messages_mcp: the contact directory cache, the fuzzy     *)
(* name resolver, the two "recent matches" selection slots and the tool    *)
(* handlers that use them (src/mac_messages_mcp/messages.py, server.py).   *)
(*                                                                         *)
(* Strings are sequences of characters; a character is a one-element       *)
(* string atom ("a", " ", "+"); EmojiChar stands for one pictographic code *)
(* point.  A missing (None, NULL) string and "" are both falsy wherever    *)
(* the modelled code tests them and are both written <<>>.                 *)
(*                                                                         *)
(* Scores are exact rationals [n, d] for the float n/d.  On every pair of  *)
(* string lengths that occurs in this model the IEEE-754 evaluation of     *)
(* len(q)/len(c)*0.9 and 2.0*M/T orders scores, and compares them with     *)
(* 0.6, exactly as the rationals do.                                       *)
(*                                                                         *)
(* The model covers the production configuration: the USE_TEST_DATA        *)
(* environment switch of get_addressbook_contacts is unset.                *)
(***************************************************************************)
EXTENDS Integers, Sequences, FiniteSets, TLC

\* An optional value is a sequence of at most one element: None, or Some(x).
None == <<>>

Some(x) == << x >>

\* the value inside Some(x)
The(opt) == opt[1]

-----------------------------------------------------------------------------
(* Characters and the string primitives of Python the code relies on.      *)

DigitSeq == << "0", "1", "2", "3", "4", "5", "6", "7", "8", "9" >>

DigitChars == {DigitSeq[i] : i \in 1..10}

UpperSeq == << "A", "B", "C", "D", "E", "F", "G", "H", "I", "J", "K", "L", "M",
               "N", "O", "P", "Q", "R", "S", "T", "U", "V", "W", "X", "Y", "Z" >>

LowerSeq == << "a", "b", "c", "d", "e", "f", "g", "h", "i", "j", "k", "l", "m",
               "n", "o", "p", "q", "r", "s", "t", "u", "v", "w", "x", "y", "z" >>

UpperChars == {UpperSeq[i] : i \in 1..26}

LowerChars == {LowerSeq[i] : i \in 1..26}

SpaceChars == {" "}

EmojiChar == "U+1F600"

\* \w of the re module: letters, digits and the underscore.
WordChars == UpperChars \cup LowerChars \cup DigitChars \cup {"_"}

\* c.isdigit()
isdigit(c) == c \in DigitChars

\* str.lower() on one character
lower_char(c) ==
    IF c \in UpperChars
    THEN LowerSeq[CHOOSE i \in 1..26 : UpperSeq[i] = c]
    ELSE c

\* str.lower()
lower(s) == [i \in 1..Len(s) |-> lower_char(s[i])]

IsSpace(c) == c \in SpaceChars

RECURSIVE lstrip(_)
lstrip(s) == IF s # <<>> /\ IsSpace(Head(s)) THEN lstrip(Tail(s)) ELSE s

RECURSIVE rstrip(_)
rstrip(s) ==
    IF s # <<>> /\ IsSpace(s[Len(s)]) THEN rstrip(SubSeq(s, 1, Len(s) - 1)) ELSE s

\* str.strip()
strip(s) == rstrip(lstrip(s))

\* needle in hay, at offset i (0-based)
OccursAt(needle, hay, i) ==
    /\ i + Len(needle) <= Len(hay)
    /\ SubSeq(hay, i + 1, i + Len(needle)) = needle

\* Python's  needle in hay  on strings
IsSubstring(needle, hay) == \E i \in 0..Len(hay) : OccursAt(needle, hay, i)

\* s.startswith(prefix)
startswith(s, prefix) == OccursAt(prefix, s, 0)

\* s.split(sep)[0]: the text before the first occurrence of sep (sep occurs)
BeforeFirst(s, sep) ==
    LET i == CHOOSE k \in 0..Len(s) :
                 /\ OccursAt(sep, s, k)
                 /\ \A j \in 0..(k - 1) : ~OccursAt(sep, s, j)
    IN  SubSeq(s, 1, i)

\* s.split(sep, 1)[1]: the text after the first occurrence of sep (sep occurs)
AfterFirst(s, sep) ==
    LET i == CHOOSE k \in 0..Len(s) :
                 /\ OccursAt(sep, s, k)
                 /\ \A j \in 0..(k - 1) : ~OccursAt(sep, s, j)
    IN  SubSeq(s, i + Len(sep) + 1, Len(s))

\* ''.join(c for c in s if keep(c))
RECURSIVE FilterChars(_, _)
FilterChars(s, keep) ==
    IF s = <<>> THEN <<>>
    ELSE IF Head(s) \in keep THEN <<Head(s)>> \o FilterChars(Tail(s), keep)
    ELSE FilterChars(Tail(s), keep)

\* re.sub(r'\s+', ' ', s): every run of whitespace becomes one space
RECURSIVE CollapseSpaces(_)
CollapseSpaces(s) ==
    IF s = <<>> THEN <<>>
    ELSE IF IsSpace(Head(s))
         THEN <<" ">> \o CollapseSpaces(lstrip(s))
         ELSE <<Head(s)>> \o CollapseSpaces(Tail(s))

normalize_phone_number(phone) == FilterChars(phone, DigitChars)

\* Pictographic code points go first, then everything that is not a word
\* character, whitespace, apostrophe or hyphen; whitespace runs collapse and
\* the ends are trimmed.
clean_name(name) ==
    LET noEmoji == SelectSeq(name, LAMBDA c : c # EmojiChar)
        kept    == FilterChars(noEmoji, WordChars \cup SpaceChars \cup {"'", "-"})
    IN  strip(CollapseSpaces(kept))


-----------------------------------------------------------------------------
(* difflib.SequenceMatcher(None, a, b).ratio() for strings shorter than    *)
(* 200 characters (no junk, no autojunk).  Positions are 1-based and the   *)
(* ranges alo..ahi, blo..bhi are inclusive.                                *)

\* Length of the common run that starts at a[i] and b[j] inside the ranges.
RECURSIVE RunLen(_, _, _, _, _, _)
RunLen(a, b, i, j, ahi, bhi) ==
    IF i <= ahi /\ j <= bhi /\ a[i] = b[j]
    THEN 1 + RunLen(a, b, i + 1, j + 1, ahi, bhi)
    ELSE 0

Max(S) == CHOOSE x \in S : \A y \in S : y <= x

Min(S) == CHOOSE x \in S : \A y \in S : x <= y

\* The longest matching block; of all maximal blocks the one that starts
\* earliest in a, and of those the one that starts earliest in b.
find_longest_match(a, b, alo, ahi, blo, bhi) ==
    LET \* where a common run begins: the characters agree and the ones
        \* before them, if inside the ranges, do not
        starts == {p \in (alo..ahi) \X (blo..bhi) :
                     /\ a[p[1]] = b[p[2]]
                     /\ (p[1] = alo \/ p[2] = blo \/ a[p[1] - 1] # b[p[2] - 1])}
        runs   == {<< RunLen(a, b, p[1], p[2], ahi, bhi), p[1], p[2] >> : p \in starts}
        best   == Max({r[1] : r \in runs} \cup {0})
    IN  IF best = 0 THEN [i |-> alo, j |-> blo, size |-> 0]
        ELSE LET bi == Min({r[2] : r \in {t \in runs : t[1] = best}})
                 bj == Min({r[3] : r \in {t \in runs : t[1] = best /\ t[2] = bi}})
             IN  [i |-> bi, j |-> bj, size |-> best]

\* Sum of the sizes of get_matching_blocks(): the longest block, then the
\* pieces to its left and to its right.
RECURSIVE MatchedChars(_, _, _, _, _, _)
MatchedChars(a, b, alo, ahi, blo, bhi) ==
    IF alo > ahi \/ blo > bhi THEN 0
    ELSE LET m == find_longest_match(a, b, alo, ahi, blo, bhi)
         IN  IF m.size = 0 THEN 0
             ELSE m.size
                  + MatchedChars(a, b, alo, m.i - 1, blo, m.j - 1)
                  + MatchedChars(a, b, m.i + m.size, ahi, m.j + m.size, bhi)

\* ratio(): 2.0 * matches / (len(a) + len(b)), and 1.0 for two empty strings
ratio(a, b) ==
    IF Len(a) + Len(b) = 0 THEN [n |-> 1, d |-> 1]
    ELSE [n |-> 2 * MatchedChars(a, b, 1, Len(a), 1, Len(b)),
          d |-> Len(a) + Len(b)]

-----------------------------------------------------------------------------
(* fuzzy_match                                                             *)

\* s >= t on scores
ScoreGE(s, t) == s.n * t.d >= t.n * s.d

ScoreEQ(s, t) == s.n * t.d = t.n * s.d

\* threshold: float = 0.6
DefaultThreshold == [n |-> 6, d |-> 10]

ExactScore == [n |-> 1, d |-> 1]

\* The substring score without the length ratio: every containment scores 0.9.
SubstringScore_NoLength(query, cand) == [n |-> 9, d |-> 10]

\* len(query) / len(clean_candidate) * 0.9
SubstringScore(query, cand) == [n |-> 9 * Len(query), d |-> 10 * Len(cand)]

\* One pass of the loop body for the candidate (name, value): the tuple
\* appended to results, if any.  query is already cleaned and lower-cased.
\* The continue of the substring branch sits inside its threshold test, so a
\* substring hit below the threshold goes on to the difflib score.
MatchOne(query, name, value, threshold) ==
    LET clean_candidate == lower(clean_name(name))
        substring_score == SubstringScore(query, clean_candidate)
        difflib_score   == ratio(query, clean_candidate)
    IN  IF query = clean_candidate
        THEN << [name |-> name, phone |-> value, score |-> ExactScore] >>
        ELSE IF /\ IsSubstring(query, clean_candidate)
                /\ ScoreGE(substring_score, threshold)
        THEN << [name |-> name, phone |-> value, score |-> substring_score] >>
        ELSE IF ScoreGE(difflib_score, threshold)
        THEN << [name |-> name, phone |-> value, score |-> difflib_score] >>
        ELSE << >>

\* The sort without reverse=True: lowest score first.
RECURSIVE InsertByScore_Ascending(_, _)
InsertByScore_Ascending(x, sorted) ==
    IF sorted = <<>> THEN <<x>>
    ELSE IF ScoreGE(x.score, Head(sorted).score)
         THEN <<Head(sorted)>> \o InsertByScore_Ascending(x, Tail(sorted))
         ELSE <<x>> \o sorted

\* x goes after every element whose score is >= its own: equal scores keep
\* the order in which they were appended.
RECURSIVE InsertByScore(_, _)
InsertByScore(x, sorted) ==
    IF sorted = <<>> THEN <<x>>
    ELSE IF ScoreGE(Head(sorted).score, x.score)
         THEN <<Head(sorted)>> \o InsertByScore(x, Tail(sorted))
         ELSE <<x>> \o sorted

\* sorted(results, key=lambda x: x[2], reverse=True): stable, highest first
RECURSIVE SortByScoreDesc(_)
SortByScoreDesc(results) ==
    IF results = <<>> THEN <<>>
    ELSE InsertByScore(results[Len(results)],
                       SortByScoreDesc(SubSeq(results, 1, Len(results) - 1)))

RECURSIVE MatchAll(_, _, _)
MatchAll(query, candidates, threshold) ==
    IF candidates = <<>> THEN <<>>
    ELSE MatchOne(query, Head(candidates).name, Head(candidates).phone, threshold)
         \o MatchAll(query, Tail(candidates), threshold)

fuzzy_match(query, candidates, threshold) ==
    SortByScoreDesc(MatchAll(lower(clean_name(query)), candidates, threshold))

-----------------------------------------------------------------------------
(* The contact directory.  A Python dict is a sequence of [key, value]     *)
(* records with distinct keys, in insertion order (dicts keep it, and      *)
(* find_contact_by_name lists the candidates in that order).               *)

\* key in d
HasKey(d, k) == \E i \in 1..Len(d) : d[i].key = k

\* d[k]
Lookup(d, k) == d[CHOOSE i \in 1..Len(d) : d[i].key = k].value

\* d[k] = v: a present key keeps its place, a new key goes last
DictSet(d, k, v) ==
    IF HasKey(d, k)
    THEN [i \in 1..Len(d) |-> IF d[i].key = k THEN [key |-> k, value |-> v] ELSE d[i]]
    ELSE Append(d, [key |-> k, value |-> v])

XIMAGETYPE == << "X", "-", "I", "M", "A", "G", "E", "T", "Y", "P", "E" >>

\* phone.split("X-IMAGETYPE")[0] when the marker is there
StripImageMetadata(phone) ==
    IF IsSubstring(XIMAGETYPE, phone) THEN BeforeFirst(phone, XIMAGETYPE) ELSE phone

\* " ".join(filter(None, [first_name, last_name]))
FullName(first_name, last_name) ==
    IF first_name # <<>> /\ last_name # <<>> THEN first_name \o <<" ">> \o last_name
    ELSE first_name \o last_name

\* the row test without the check of the normalized phone number
RowAccepted_AnyPhone(row) ==
    /\ row.phone # <<>>
    /\ strip(FullName(row.first_name, row.last_name)) # <<>>

\* Whether the loop body adds the row to the map: it has a phone, a name
\* that is not blank, and a phone with at least one digit.
RowAccepted(row) ==
    /\ row.phone # <<>>
    /\ strip(FullName(row.first_name, row.last_name)) # <<>>
    /\ normalize_phone_number(StripImageMetadata(row.phone)) # <<>>

\* The loop of process_contacts, over both maps at once.
RECURSIVE ProcessRows(_, _, _)
ProcessRows(contacts, contacts_map, name_to_numbers) ==
    IF contacts = <<>>
    THEN [contacts_map |-> contacts_map, name_to_numbers |-> name_to_numbers]
    ELSE LET row == Head(contacts)
             full_name == FullName(row.first_name, row.last_name)
             normalized_phone == normalize_phone_number(StripImageMetadata(row.phone))
             numbers == IF HasKey(name_to_numbers, full_name)
                        THEN Lookup(name_to_numbers, full_name)
                        ELSE <<>>
         IN  IF RowAccepted(row)
             THEN ProcessRows(Tail(contacts),
                              DictSet(contacts_map, normalized_phone, full_name),
                              DictSet(name_to_numbers, full_name,
                                      Append(numbers, normalized_phone)))
             ELSE ProcessRows(Tail(contacts), contacts_map, name_to_numbers)

\* process_contacts returns contacts_map and, as a side effect, assigns the
\* global _NAME_TO_NUMBERS_MAP: both are in the record.
process_contacts(contacts) == ProcessRows(contacts, <<>>, <<>>)

\* The store as query_addressbook_db and the sqlite3 command line see it.
\*   "direct"  the databases open in-process
\*   "cli"     opening in-process fails; the sqlite3 command line exits 0
\*             and prints the rows the way the parsing loop of the fallback
\*             expects them, one JSON object on a line each
\*   "denied"  the database files exist, neither way can read them
\*   "missing" there is no database file
StoreModes == {"direct", "cli", "denied", "missing"}

\* The rows of the direct query (WHERE ZFULLNUMBER IS NOT NULL); a row
\* without a phone number has a NULL phone.
DirectRows(rows) == SelectSeq(rows, LAMBDA r : r.phone # <<>>)

\* query_addressbook_db answers [{"error": ...}] when no database is found,
\* when none can be opened, and when the databases yield no row at all.
DirectQueryFails(mode, rows) == mode # "direct" \/ DirectRows(rows) = <<>>

\* The command exits 0 and prints the rows whenever the command line can
\* read the database.
SubprocessWorks(mode) == mode \in {"direct", "cli"}

\* get_addressbook_contacts_subprocess: the same row processing, but only
\* the phone -> name map; _NAME_TO_NUMBERS_MAP is not assigned.
get_addressbook_contacts_subprocess(mode, rows) ==
    IF SubprocessWorks(mode) THEN ProcessRows(rows, <<>>, <<>>).contacts_map ELSE <<>>

\* get_addressbook_contacts: the returned map, and the new value of
\* _NAME_TO_NUMBERS_MAP given its old one.
get_addressbook_contacts(mode, rows, old_name_to_numbers) ==
    LET result == process_contacts(DirectRows(rows))
    IN  IF DirectQueryFails(mode, rows)
        THEN [contacts_map    |-> get_addressbook_contacts_subprocess(mode, rows),
              name_to_numbers |-> old_name_to_numbers,
              processed       |-> FALSE]
        ELSE [contacts_map    |-> result.contacts_map,
              name_to_numbers |-> result.name_to_numbers,
              processed       |-> TRUE]

\* Whether a refresh in this state of the store fails: neither the direct
\* query nor the fallback reaches the store.
RefreshFails(mode, rows) == DirectQueryFails(mode, rows) /\ ~SubprocessWorks(mode)

\* _CACHE_TTL = 300  # 5 minutes in seconds
_CACHE_TTL == 300

-----------------------------------------------------------------------------
(* The contacts store, the message store and the inputs of the calls.      *)

Str_Dylan == << "D", "y", "l", "a", "n" >>

Str_Westhimer == << "W", "e", "s", "t", "h", "i", "m", "e", "r" >>

Str_John == << "J", "o", "h", "n" >>

Str_Smith == << "S", "m", "i", "t", "h" >>

Str_Smithe == << "S", "m", "i", "t", "h", "e" >>

Str_Jon == << "J", "o", "n" >>

Str_Ann == << "A", "n", "n" >>

Phone_Dylan == << "+", "1", "3", "1", "0", "8", "8", "2", "0", "1", "8", "9" >>

Phone_Smith == << "+", "1", " ", "(", "3", "1", "0", ")", " ", "5", "5", "5", "-",
                  "1", "2", "3", "4" >>

Phone_Smithe == << "3", "1", "0", "5", "5", "5", "0", "0", "0", "0" >>

Phone_Jon == << "3", "1", "0", "-", "5", "5", "5", "-", "9", "9", "9", "9" >>

Row_Dylan == [first_name |-> Str_Dylan, last_name |-> Str_Westhimer, phone |-> Phone_Dylan]

Row_Smith == [first_name |-> Str_John, last_name |-> Str_Smith, phone |-> Phone_Smith]

Row_Smithe == [first_name |-> Str_John, last_name |-> Str_Smithe, phone |-> Phone_Smithe]

Row_Jon == [first_name |-> Str_Jon, last_name |-> Str_Smith, phone |-> Phone_Jon]

\* a contact without a phone number (NULL from the LEFT JOIN)
Row_NoPhone == [first_name |-> Str_Ann, last_name |-> <<>>, phone |-> <<>>]

\* The contents the contacts store can have, each in the order the queries
\* ask for (ORDER BY ZLASTNAME, ZFIRSTNAME: NULL names first).
StoreSnapshots ==
    { << Row_Dylan >>,
      << Row_NoPhone, Row_Smith, Row_Smithe >> }

\* The address books of the runs that exercise contact selection.
SelectionSnapshots ==
    { << Row_Smith, Row_Smithe >>,
      << Row_Smith, Row_Jon, Row_Smithe, Row_Dylan >> }

Str_contact == << "c", "o", "n", "t", "a", "c", "t", ":" >>

In_dylan == << "d", "y", "l", "a", "n" >>

In_DylanWesthimer == Str_Dylan \o << " " >> \o Str_Westhimer

In_JohnSmit == << "J", "o", "h", "n", " ", "S", "m", "i", "t" >>

In_JohnSmithe == << "j", "o", "h", "n", " ", "s", "m", "i", "t", "h", "e" >>

In_Number == << "3", "1", "0", "5", "5", "5", "1", "2", "3", "4" >>

\* the names given to the name resolver
NameInputs == { In_dylan, In_DylanWesthimer, In_JohnSmit, In_JohnSmithe }

\* contact:N is tried for N up to one more than this
MaxMatches == 3

Decimal(n) == << DigitSeq[n + 1] >>

\* contact:N with N from 0 to one past the longest match list, in another
\* spelling, and with an N that is no integer
SelectionInputs ==
    { Str_contact \o Decimal(n) : n \in 0..(MaxMatches + 1) }
    \cup { << "C", "o", "n", "t", "a", "c", "t", ":", " ", "2", " " >>,
           Str_contact \o << "-", "1" >>,
           Str_contact \o << "x" >> }

RecipientInputs == NameInputs \cup SelectionInputs \cup { In_Number }

\* What one run of the send script does.  The script first looks the buddy up
\* and sends to it; when that raises, its error handler sends once more, to
\* the recipient string itself; when that raises too it returns "error:" and
\* the second reason.  "other" is a run that prints neither (osascript exits
\* with an error before the first try block, which run_applescript turns
\* into "Error: ...").
\*   sent                 the first try block ran through
\*   buddy_failed_sent    the buddy lookup raised, the direct send worked
\*   send_failed_sent     the send to the buddy raised, the direct send worked
\*   buddy_failed_error   the buddy lookup raised, the direct send raised
\*   send_failed_error    the send to the buddy raised, the direct send raised
TransportResults ==
    { "sent", "buddy_failed_sent", "send_failed_sent", "buddy_failed_error",
      "send_failed_error", "other" }

\* how many send commands the script issued to Messages in that run
SendCommands(result) ==
    IF result \in { "send_failed_sent", "send_failed_error" } THEN 2
    ELSE IF result = "other" THEN 0
    ELSE 1

\* what osascript prints: "success", "error:" and the second reason, or
\* something else
ScriptOutput(result) ==
    IF result \in { "sent", "buddy_failed_sent", "send_failed_sent" }
    THEN "success"
    ELSE IF result \in { "buddy_failed_error", "send_failed_error" }
    THEN "error"
    ELSE "other"

\* The handle table of chat.db: ROWID i has id HandleTable[i].
HandleTable ==
    << << "+", "1", "3", "1", "0", "5", "5", "5", "1", "2", "3", "4" >>,
       << "+", "1", "3", "1", "0", "8", "8", "2", "0", "1", "8", "9" >>,
       << "+", "4", "4", "7", "7" >>,
       << "3", "1", "0", "5", "5", "5", "1", "2", "3", "4" >>,
       << "+", "1", "3", "1", "0", "5", "5", "5", "0", "0", "0", "0" >>,
       << "+", "1", "3", "1", "0", "5", "5", "5", "1", "2", "3", "4", "5" >> >>

\* chat.display_name of the chat a handle belongs to (<<>>: none, or NULL)
ChatDisplayName == << <<>>, <<>>, << "C", "r", "e", "w" >>, <<>>, <<>>, <<>> >>

\* message.handle_id of a row that has no row in the handle table
NoHandle == 0

Text_hi == << "h", "i" >>

\* The message rows inside the time window, newest first.
MessageLog ==
    << [text |-> Text_hi, is_from_me |-> TRUE,  handle_id |-> 1],
       [text |-> <<>>,    is_from_me |-> FALSE, handle_id |-> 1],
       [text |-> Text_hi, is_from_me |-> FALSE, handle_id |-> 2],
       [text |-> Text_hi, is_from_me |-> FALSE, handle_id |-> 3] >>

\* time.time() when the process starts
StartTime == 1000

\* how far the clock runs
MaxElapsed == 301

\* how many times the contacts store is read
MaxRefreshes == 2

-----------------------------------------------------------------------------
(* State                                                                   *)

VARIABLES
    storeRows,                    \* the rows of the contacts store
    storeMode,                    \* how the contacts store can be reached
    messagesDbUp,                 \* whether chat.db can be queried
    messageRows,                  \* the message rows inside the time window
    now,                          \* time.time()
    _CONTACTS_CACHE,              \* None, or Some(the phone -> name dict)
    _LAST_CACHE_UPDATE,
    _NAME_TO_NUMBERS_MAP,         \* the name -> [phones] dict
    send_message_recent_matches,  \* send_message.recent_matches
    get_recent_messages_recent_matches,
    refreshes,                    \* calls of get_addressbook_contacts so far
    cacheRefresh,                 \* the call that produced _CONTACTS_CACHE
    reverseRefresh,               \* the call that produced _NAME_TO_NUMBERS_MAP
    inflight,                     \* a contact:N call between its range check
                                  \* and its list access, or None
    ev                            \* the last call: its arguments and what it did

vars == << storeRows, storeMode, messagesDbUp, messageRows, now, _CONTACTS_CACHE,
           _LAST_CACHE_UPDATE, _NAME_TO_NUMBERS_MAP, send_message_recent_matches,
           get_recent_messages_recent_matches, refreshes, cacheRefresh,
           reverseRefresh, inflight, ev >>

envVars == << storeRows, storeMode, messagesDbUp, messageRows, now >>

\* What a call leaves behind for the observer.
\*   op        the function called
\*   input     its recipient / contact / name argument
\*   outcome   which return statement ended it
\*   accessed  get_cached_contacts was called
\*   queried   get_cached_contacts read the contacts store
\*   resolved  find_contact_by_name was called, with result matches
\*   picked    the candidate a contact:N selected, or None
\*   target    the identifier the call went on with: the recipient given to
\*             the send transport, the contact whose handle is looked up
\*   sends     how many times the send script was run
\*   attempts  how many send commands the script issued to Messages
\*   script    what the run of the script did, "none" when it was not run
\*   body      the message text given to the send transport
\*   lines     the transcript lines of get_recent_messages
NoCall ==
    [op |-> "none", input |-> <<>>, outcome |-> "none", accessed |-> FALSE,
     queried |-> FALSE, resolved |-> FALSE, matches |-> <<>>, picked |-> None,
     target |-> None, sends |-> 0, attempts |-> 0, script |-> "none",
     body |-> None, lines |-> <<>>]

\* The process has just started: nothing is cached, nothing is recorded.
Started ==
    /\ now = StartTime
    /\ _CONTACTS_CACHE = None
    /\ _LAST_CACHE_UPDATE = 0
    /\ _NAME_TO_NUMBERS_MAP = <<>>
    /\ send_message_recent_matches = <<>>
    /\ get_recent_messages_recent_matches = <<>>
    /\ refreshes = 0
    /\ cacheRefresh = 0
    /\ reverseRefresh = 0
    /\ inflight = None
    /\ ev = NoCall

Init ==
    /\ storeRows \in StoreSnapshots
    /\ storeMode \in StoreModes
    /\ messagesDbUp \in BOOLEAN
    /\ messageRows = MessageLog
    /\ Started

-----------------------------------------------------------------------------
(* get_cached_contacts and find_contact_by_name, as functions of the       *)
(* current state: the values they return and the globals they leave.       *)

\* The staleness test with >= for >: a snapshot exactly one TTL old is stale.
CacheIsStale_Inclusive ==
    _CONTACTS_CACHE = None \/ (now - _LAST_CACHE_UPDATE) >= _CACHE_TTL

\* current_time - _LAST_CACHE_UPDATE > _CACHE_TTL, or nothing cached yet
CacheIsStale ==
    _CONTACTS_CACHE = None \/ (now - _LAST_CACHE_UPDATE) > _CACHE_TTL

\* The globals after get_cached_contacts(), and the dict it returns.
get_cached_contacts ==
    LET fresh == get_addressbook_contacts(storeMode, storeRows, _NAME_TO_NUMBERS_MAP)
    IN  IF CacheIsStale
        THEN [contacts        |-> fresh.contacts_map,
              last_update     |-> now,
              name_to_numbers |-> fresh.name_to_numbers,
              refreshes       |-> refreshes + 1,
              cacheRefresh    |-> refreshes + 1,
              reverseRefresh  |-> IF fresh.processed THEN refreshes + 1
                                  ELSE reverseRefresh]
        ELSE [contacts        |-> The(_CONTACTS_CACHE),
              last_update     |-> _LAST_CACHE_UPDATE,
              name_to_numbers |-> _NAME_TO_NUMBERS_MAP,
              refreshes       |-> refreshes,
              cacheRefresh    |-> cacheRefresh,
              reverseRefresh  |-> reverseRefresh]

\* A call may read the contacts store only while the model counts reads.
MayAccessCache == CacheIsStale => refreshes < MaxRefreshes

\* The assignments get_cached_contacts() makes.
CacheAccessed ==
    LET got == get_cached_contacts
    IN  /\ _CONTACTS_CACHE' = Some(got.contacts)
        /\ _LAST_CACHE_UPDATE' = got.last_update
        /\ _NAME_TO_NUMBERS_MAP' = got.name_to_numbers
        /\ refreshes' = got.refreshes
        /\ cacheRefresh' = got.cacheRefresh
        /\ reverseRefresh' = got.reverseRefresh

CacheUntouched ==
    UNCHANGED << _CONTACTS_CACHE, _LAST_CACHE_UPDATE, _NAME_TO_NUMBERS_MAP,
                 refreshes, cacheRefresh, reverseRefresh >>

\* [(contact_name, phone) for phone, contact_name in contacts.items()]
Candidates(contacts) ==
    [i \in 1..Len(contacts) |-> [name |-> contacts[i].value, phone |-> contacts[i].key]]

\* find_contact_by_name(name); contacts is what get_cached_contacts() returns
find_contact_by_name(name, contacts) ==
    fuzzy_match(name, Candidates(contacts), DefaultThreshold)

-----------------------------------------------------------------------------
(* The environment: the clock, the contacts store, the message store.      *)

\* Time passes between calls: a full TTL, or one second more.
Tick ==
    /\ \E d \in {_CACHE_TTL, _CACHE_TTL + 1} :
          /\ now + d <= StartTime + MaxElapsed
          /\ now' = now + d
    /\ UNCHANGED << storeRows, storeMode, messagesDbUp, messageRows, inflight, ev >>
    /\ UNCHANGED << send_message_recent_matches, get_recent_messages_recent_matches >>
    /\ CacheUntouched

\* The user edits the address book, or access to it changes.
StoreChange ==
    /\ \E rows \in StoreSnapshots, mode \in StoreModes :
          /\ << rows, mode >> # << storeRows, storeMode >>
          /\ storeRows' = rows
          /\ storeMode' = mode
    /\ UNCHANGED << messagesDbUp, messageRows, now, inflight, ev >>
    /\ UNCHANGED << send_message_recent_matches, get_recent_messages_recent_matches >>
    /\ CacheUntouched

\* Access to chat.db is granted or lost.
MessagesDbChange ==
    /\ messagesDbUp' = ~messagesDbUp
    /\ UNCHANGED << storeRows, storeMode, messageRows, now, inflight, ev >>
    /\ UNCHANGED << send_message_recent_matches, get_recent_messages_recent_matches >>
    /\ CacheUntouched

-----------------------------------------------------------------------------
(* server.py: the tools that only read the directory                       *)

\* tool_find_contact(name): the matches are formatted and returned; neither
\* recent_matches attribute is assigned.
tool_find_contact(name) ==
    /\ MayAccessCache
    /\ CacheAccessed
    /\ \E matches \in { find_contact_by_name(name, The(_CONTACTS_CACHE')) } :
           ev' = [NoCall EXCEPT
                    !.op = "tool_find_contact",
                    !.input = name,
                    !.accessed = TRUE,
                    !.queried = CacheIsStale,
                    !.resolved = TRUE,
                    !.matches = matches,
                    !.outcome = IF matches = <<>> THEN "not_found"
                                ELSE IF Len(matches) = 1 THEN "found"
                                ELSE "ambiguous"]
    /\ UNCHANGED << envVars, inflight >>
    /\ UNCHANGED << send_message_recent_matches, get_recent_messages_recent_matches >>

\* tool_check_contacts(): get_cached_contacts() and a listing
tool_check_contacts ==
    /\ MayAccessCache
    /\ CacheAccessed
    /\ ev' = [NoCall EXCEPT
                !.op = "tool_check_contacts",
                !.accessed = TRUE,
                !.queried = CacheIsStale,
                !.outcome = IF The(_CONTACTS_CACHE') = <<>> THEN "no_contacts"
                            ELSE "listed"]
    /\ UNCHANGED << envVars, inflight >>
    /\ UNCHANGED << send_message_recent_matches, get_recent_messages_recent_matches >>

\* check_addressbook_access(): returns early when the Sources directory or
\* the database files are missing; otherwise it ends with a call of
\* get_addressbook_contacts() whose result is only counted, not cached.
check_addressbook_access ==
    /\ IF storeMode = "missing"
       THEN /\ CacheUntouched
            /\ ev' = [NoCall EXCEPT !.op = "check_addressbook_access",
                                    !.outcome = "error"]
       ELSE /\ refreshes < MaxRefreshes
            /\ LET got == get_addressbook_contacts(storeMode, storeRows,
                                                   _NAME_TO_NUMBERS_MAP)
               IN  /\ _NAME_TO_NUMBERS_MAP' = got.name_to_numbers
                   /\ reverseRefresh' = IF got.processed THEN refreshes + 1
                                        ELSE reverseRefresh
                   /\ ev' = [NoCall EXCEPT
                               !.op = "check_addressbook_access",
                               !.outcome = IF got.contacts_map = <<>> THEN "warning"
                                           ELSE "retrieved"]
            /\ refreshes' = refreshes + 1
            /\ UNCHANGED << _CONTACTS_CACHE, _LAST_CACHE_UPDATE, cacheRefresh >>
    /\ UNCHANGED << envVars, inflight >>
    /\ UNCHANGED << send_message_recent_matches, get_recent_messages_recent_matches >>

-----------------------------------------------------------------------------
(* contact:N                                                               *)

DigitValue(c) == (CHOOSE i \in 1..10 : DigitSeq[i] = c) - 1

RECURSIVE DecimalValue(_)
DecimalValue(digits) ==
    IF digits = <<>> THEN 0
    ELSE 10 * DecimalValue(SubSeq(digits, 1, Len(digits) - 1))
         + DigitValue(digits[Len(digits)])

\* int(text): surrounding whitespace, an optional sign, then digits only
\* (ok, with the value); anything else raises ValueError (not ok).
int(text) ==
    LET t      == strip(text)
        signed == t # <<>> /\ Head(t) \in {"+", "-"}
        digits == IF signed THEN Tail(t) ELSE t
    IN  IF digits = <<>> \/ \E i \in 1..Len(digits) : ~isdigit(digits[i])
        THEN [ok |-> FALSE, value |-> 0]
        ELSE IF signed /\ Head(t) = "-"
        THEN [ok |-> TRUE, value |-> 0 - DecimalValue(digits)]
        ELSE [ok |-> TRUE, value |-> DecimalValue(digits)]

\* recipient.lower().startswith("contact:")
IsSelection(recipient) == startswith(lower(recipient), Str_contact)

\* int(recipient.split(":", 1)[1].strip())
SelectionNumber(recipient) == int(strip(AfterFirst(recipient, << ":" >>)))

\* The index without the "- 1": contact:N taken as a 0-based position.
SelectionIndex_NoOffset(recipient) == SelectionNumber(recipient).value

\* index = int(...) - 1
SelectionIndex(recipient) == SelectionNumber(recipient).value - 1

\* The checks both callers make on the index against their recent_matches:
\* the return statement that ends the selection, or "selected".
SelectionOutcome(recipient, recent_matches) ==
    IF ~SelectionNumber(recipient).ok THEN "select_error"
    ELSE IF recent_matches = <<>> THEN "no_recent_matches"
    ELSE IF SelectionIndex(recipient) < 0
            \/ SelectionIndex(recipient) >= Len(recent_matches)
    THEN "invalid_selection"
    ELSE "selected"

\* recent_matches[index - 1]: one position early, and for index 0 Python's
\* negative index takes the last element.
SelectedContact_OneEarly(recipient, recent_matches) ==
    recent_matches[IF SelectionIndex(recipient) = 0 THEN Len(recent_matches)
                   ELSE SelectionIndex(recipient)]

\* recent_matches[index]
SelectedContact(recipient, recent_matches) ==
    recent_matches[SelectionIndex(recipient) + 1]

-----------------------------------------------------------------------------
(* send_message                                                            *)

Text_message == << "o", "k" >>

\* the message texts of the calls
MessageInputs == { Text_message }

\* s.replace(old, new) for a one-character old
RECURSIVE Replace(_, _, _)
Replace(s, old, new) ==
    IF s = <<>> THEN <<>>
    ELSE (IF Head(s) = old THEN new ELSE << Head(s) >>) \o Replace(Tail(s), old, new)

\* safe_recipient = recipient.replace('"', '\\"')
safe_recipient(recipient) == Replace(recipient, "\"", << "\\", "\"" >>)

\* safe_message = message.replace('"', '\\"').replace('\\', '\\\\')
safe_message(message) ==
    Replace(Replace(message, "\"", << "\\", "\"" >>), "\\", << "\\", "\\" >>)

\* all(c.isdigit() or c in '+- ()' for c in recipient)
LooksLikeNumber(recipient) ==
    \A i \in 1..Len(recipient) :
        isdigit(recipient[i]) \/ recipient[i] \in {"+", "-", " ", "(", ")"}

\* a sender that runs the script a second time when it reported an error
_send_message_to_recipient_Retries(call, recipient, message, result) ==
    [call EXCEPT
        !.target = Some(safe_recipient(recipient)),
        !.body = Some(safe_message(message)),
        !.sends = IF ScriptOutput(result) = "error" THEN 2 ELSE 1,
        !.attempts = IF ScriptOutput(result) = "error"
                     THEN 2 * SendCommands(result) ELSE SendCommands(result),
        !.script = result,
        !.outcome = IF ScriptOutput(result) = "error" THEN "send_error"
                    ELSE IF ScriptOutput(result) = "success" THEN "sent"
                    ELSE "unknown_result"]

\* _send_message_to_recipient(recipient, message, contact_name): the script
\* is run once and its output decides the return value.  call is the record
\* of the call so far, result what that run of the script did.
_send_message_to_recipient(call, recipient, message, result) ==
    [call EXCEPT
        !.target = Some(safe_recipient(recipient)),
        !.body = Some(safe_message(message)),
        !.sends = 1,
        !.attempts = SendCommands(result),
        !.script = result,
        !.outcome = IF ScriptOutput(result) = "error" THEN "send_error"
                    ELSE IF ScriptOutput(result) = "success" THEN "sent"
                    ELSE "unknown_result"]

\* a send_message that, given several matches, sends to the first of them
send_message_FirstOfMany(recipient, message) ==
    LET stripped == strip(recipient)
        call     == [NoCall EXCEPT !.op = "send_message", !.input = recipient]
    IN
          /\ IF IsSelection(stripped)
             THEN \* contact:N
                  /\ CacheUntouched
                  /\ UNCHANGED send_message_recent_matches
                  /\ LET how == SelectionOutcome(stripped, send_message_recent_matches)
                         contact == SelectedContact(stripped,
                                                    send_message_recent_matches)
                     IN  IF how = "selected"
                         THEN \E result \in TransportResults :
                                 ev' = _send_message_to_recipient(
                                           [call EXCEPT !.picked = Some(contact)],
                                           contact.phone, message, result)
                         ELSE ev' = [call EXCEPT !.outcome = how]
             ELSE IF LooksLikeNumber(stripped)
             THEN \* a phone number: its digits go to the transport
                  /\ CacheUntouched
                  /\ UNCHANGED send_message_recent_matches
                  /\ \E result \in TransportResults :
                        ev' = _send_message_to_recipient(
                                  call, normalize_phone_number(stripped),
                                  message, result)
             ELSE \* a name
                  /\ MayAccessCache
                  /\ CacheAccessed
                  /\ \E contacts \in { find_contact_by_name(
                                            stripped, get_cached_contacts.contacts) } :
                     LET looked   == [call EXCEPT
                                         !.accessed = TRUE,
                                         !.queried = CacheIsStale,
                                         !.resolved = TRUE,
                                         !.matches = contacts]
                     IN  IF contacts = <<>>
                         THEN /\ UNCHANGED send_message_recent_matches
                              /\ ev' = [looked EXCEPT !.outcome = "not_found"]
                         ELSE IF Len(contacts) = 1
                         THEN /\ UNCHANGED send_message_recent_matches
                              /\ \E result \in TransportResults :
                                    ev' = _send_message_to_recipient(
                                              looked, contacts[1].phone,
                                              message, result)
                         ELSE /\ send_message_recent_matches' = contacts
                              /\ \E result \in TransportResults :
                                    ev' = _send_message_to_recipient(
                                              looked, contacts[1].phone,
                                              message, result)
          /\ UNCHANGED << envVars, inflight >>
          /\ UNCHANGED get_recent_messages_recent_matches

\* send_message(recipient, message): contact:N, a phone number, or a name.
send_message(recipient, message) ==
    LET stripped == strip(recipient)
        call     == [NoCall EXCEPT !.op = "send_message", !.input = recipient]
    IN
          /\ IF IsSelection(stripped)
             THEN \* contact:N
                  /\ CacheUntouched
                  /\ UNCHANGED send_message_recent_matches
                  /\ LET how == SelectionOutcome(stripped, send_message_recent_matches)
                         contact == SelectedContact(stripped,
                                                    send_message_recent_matches)
                     IN  IF how = "selected"
                         THEN \E result \in TransportResults :
                                 ev' = _send_message_to_recipient(
                                           [call EXCEPT !.picked = Some(contact)],
                                           contact.phone, message, result)
                         ELSE ev' = [call EXCEPT !.outcome = how]
             ELSE IF LooksLikeNumber(stripped)
             THEN \* a phone number: its digits go to the transport
                  /\ CacheUntouched
                  /\ UNCHANGED send_message_recent_matches
                  /\ \E result \in TransportResults :
                        ev' = _send_message_to_recipient(
                                  call, normalize_phone_number(stripped),
                                  message, result)
             ELSE \* a name
                  /\ MayAccessCache
                  /\ CacheAccessed
                  /\ \E contacts \in { find_contact_by_name(
                                            stripped, get_cached_contacts.contacts) } :
                     LET looked   == [call EXCEPT
                                         !.accessed = TRUE,
                                         !.queried = CacheIsStale,
                                         !.resolved = TRUE,
                                         !.matches = contacts]
                     IN  IF contacts = <<>>
                         THEN /\ UNCHANGED send_message_recent_matches
                              /\ ev' = [looked EXCEPT !.outcome = "not_found"]
                         ELSE IF Len(contacts) = 1
                         THEN /\ UNCHANGED send_message_recent_matches
                              /\ \E result \in TransportResults :
                                    ev' = _send_message_to_recipient(
                                              looked, contacts[1].phone,
                                              message, result)
                         ELSE /\ send_message_recent_matches' = contacts
                              /\ ev' = [looked EXCEPT !.outcome = "ambiguous"]
          /\ UNCHANGED << envVars, inflight >>
          /\ UNCHANGED get_recent_messages_recent_matches

\* the values of the tool's group_chat argument
GroupChatInputs == BOOLEAN

\* tool_send_message(ctx, recipient, message, group_chat): the tool calls
\* send_message(recipient=..., message=..., group_chat=...), and send_message
\* takes no group_chat parameter, so the call raises TypeError before the
\* body of send_message runs; the tool catches it and returns
\* "Error sending message: ...".
tool_send_message(recipient, message, group_chat) ==
    /\ ev' = [NoCall EXCEPT !.op = "tool_send_message", !.input = recipient,
                            !.outcome = "tool_error"]
    /\ CacheUntouched
    /\ UNCHANGED << send_message_recent_matches,
                    get_recent_messages_recent_matches >>
    /\ UNCHANGED << envVars, inflight >>

\* The contact:N block of send_message as a thread runs it, in two steps.
\* First the index is parsed and checked against send_message.recent_matches
\* as it is then (two reads: the emptiness test and the range test); a
\* failed check returns at once.
send_message_select_check(recipient, message) ==
    LET stripped == strip(recipient)
        call     == [NoCall EXCEPT !.op = "send_message", !.input = recipient]
        how      == SelectionOutcome(stripped, send_message_recent_matches)
    IN  /\ IsSelection(stripped)
        /\ inflight = None
        /\ IF how = "selected"
           THEN /\ inflight' = Some([input   |-> recipient,
                                     message |-> message,
                                     index   |-> SelectionIndex(stripped),
                                     checked |-> send_message_recent_matches])
                /\ UNCHANGED ev
           ELSE /\ ev' = [call EXCEPT !.outcome = how]
                /\ UNCHANGED inflight
        /\ CacheUntouched
        /\ UNCHANGED << send_message_recent_matches,
                        get_recent_messages_recent_matches >>
        /\ UNCHANGED envVars

\* Then send_message.recent_matches is read a third time and indexed; an
\* IndexError is caught and answered with "Error selecting contact: ...".
send_message_select_take ==
    /\ inflight # None
    /\ LET started == The(inflight)
           call    == [NoCall EXCEPT !.op = "send_message",
                                     !.input = started.input]
           recent  == send_message_recent_matches
       IN  \E result \in TransportResults :
              ev' = IF started.index >= Len(recent)
                    THEN [call EXCEPT !.outcome = "select_error"]
                    ELSE _send_message_to_recipient(
                             [call EXCEPT
                                 !.picked = Some(recent[started.index + 1])],
                             recent[started.index + 1].phone,
                             started.message, result)
    /\ inflight' = None
    /\ CacheUntouched
    /\ UNCHANGED << send_message_recent_matches,
                    get_recent_messages_recent_matches >>
    /\ UNCHANGED envVars

-----------------------------------------------------------------------------
(* get_recent_messages.  messageRows is the message table, all of it       *)
(* inside the requested time window; a transcript line is [sender, text]   *)
(* (the formatted date is left out).  messagesDbUp holds for a whole call. *)

Str_You == << "Y", "o", "u" >>

Str_Unknown == << "U", "n", "k", "n", "o", "w", "n" >>

\* The probes of get_contact_name and find_handle_by_phone: the normalized
\* number, and its variant without or with the leading "1".
NumberFormats(normalized) ==
    IF normalized # <<>> /\ Head(normalized) = "1" /\ Len(normalized) > 10
    THEN << normalized, Tail(normalized) >>
    ELSE IF Len(normalized) = 10
    THEN << normalized, << "1" >> \o normalized >>
    ELSE << normalized >>

\* The ROWIDs of the handles whose id is one of ids, in table order.
HandlesWithId(ids) ==
    SelectSeq([i \in 1..Len(HandleTable) |-> i], LAMBDA h : HandleTable[h] \in ids)

\* find_handle_by_phone(phone): None, or Some(ROWID)
find_handle_by_phone(phone) ==
    LET normalized == normalize_phone_number(phone)
        formats    == NumberFormats(normalized)
        params     == {formats[i] : i \in 1..Len(formats)}
                      \cup {<< "+" >> \o formats[i] : i \in 1..Len(formats)}
        results    == HandlesWithId(params)
    IN  IF normalized = <<>> \/ ~messagesDbUp \/ results = <<>>
        THEN None
        ELSE Some(results[1])

\* get_contact_name(handle_id), given the dict get_cached_contacts()
\* returns; chat.db is readable when it is called.  A handle_id without a
\* row in the handle table is "Unknown".
get_contact_name(handle_id, contacts) ==
    LET handle_id_value   == HandleTable[handle_id]
        normalized_handle == normalize_phone_number(handle_id_value)
        formats           == NumberFormats(normalized_handle)
    IN  IF handle_id = NoHandle THEN Str_Unknown
        ELSE IF HasKey(contacts, formats[1]) THEN Lookup(contacts, formats[1])
        ELSE IF Len(formats) = 2 /\ HasKey(contacts, formats[2])
        THEN Lookup(contacts, formats[2])
        ELSE IF ChatDisplayName[handle_id] # <<>> THEN ChatDisplayName[handle_id]
        ELSE handle_id_value

\* all(c.isdigit() or c in '+- ()@.' for c in contact)
LooksLikeNumberOrEmail(contact) ==
    \A i \in 1..Len(contact) :
        isdigit(contact[i]) \/ contact[i] \in {"+", "-", " ", "(", ")", "@", "."}

\* The rows of the final query: all of the log, or one handle's rows.
QueriedMessages(handle) ==
    IF handle = None THEN messageRows
    ELSE SelectSeq(messageRows, LAMBDA m : m.handle_id = The(handle))

\* SELECT COUNT(*) ... JOIN handle ... WHERE h.id LIKE '%normalized%'
CountLike(normalized) ==
    Cardinality({i \in 1..Len(messageRows) :
                    /\ messageRows[i].handle_id # NoHandle
                    /\ IsSubstring(normalized, HandleTable[messageRows[i].handle_id])})

\* The loop without "if not msg.get('text'): continue": a line for every row.
RECURSIVE FormatMessages_KeepsEmpty(_, _)
FormatMessages_KeepsEmpty(messages, contacts) ==
    IF messages = <<>> THEN <<>>
    ELSE LET msg == Head(messages)
             direction == IF msg.is_from_me THEN Str_You
                          ELSE get_contact_name(msg.handle_id, contacts)
         IN  << [sender |-> direction, text |-> msg.text] >>
             \o FormatMessages_KeepsEmpty(Tail(messages), contacts)

\* The loop over the rows: every row has its sender worked out, and a row
\* without text is then skipped.
RECURSIVE FormatMessages(_, _)
FormatMessages(messages, contacts) ==
    IF messages = <<>> THEN <<>>
    ELSE LET msg == Head(messages)
             direction == IF msg.is_from_me THEN Str_You
                          ELSE get_contact_name(msg.handle_id, contacts)
         IN  (IF msg.text = <<>> THEN <<>>
              ELSE << [sender |-> direction, text |-> msg.text] >>)
             \o FormatMessages(Tail(messages), contacts)

\* From "At this point, contact should be a phone number or email" on:
\* the handle is looked up, the rows are fetched and formatted.
ReadMessages(call, filtered, contact, contacts) ==
    LET handle == IF ~filtered THEN None
                  ELSE IF IsSubstring(<< "@" >>, contact)
                  THEN (IF messagesDbUp /\ HandlesWithId({contact}) # <<>>
                        THEN Some(HandlesWithId({contact})[1]) ELSE None)
                  ELSE find_handle_by_phone(contact)
        messages == QueriedMessages(handle)
        named    == \E i \in 1..Len(messages) :
                        ~messages[i].is_from_me /\ messages[i].handle_id # NoHandle
        lines    == FormatMessages(messages, contacts)
        went     == IF filtered THEN [call EXCEPT !.target = Some(contact)] ELSE call
    IN  IF filtered /\ handle = None
        THEN [went EXCEPT
                !.outcome = IF messagesDbUp
                               /\ CountLike(normalize_phone_number(contact)) = 0
                            THEN "no_history" ELSE "contact_not_found"]
        ELSE IF ~messagesDbUp THEN [went EXCEPT !.outcome = "db_error"]
        ELSE IF messages = <<>> THEN [went EXCEPT !.outcome = "no_messages"]
        ELSE [went EXCEPT
                !.accessed = call.accessed \/ named,
                !.queried = IF call.accessed THEN call.queried
                            ELSE named /\ CacheIsStale,
                !.lines = lines,
                !.outcome = IF lines = <<>> THEN "no_messages" ELSE "transcript"]

\* The whole call as a record: what it returns and does (the fields of ev)
\* and, in store, whether get_recent_messages.recent_matches is assigned.
\* contacts is the dict get_cached_contacts() returns when the call gets
\* that far.
GetRecentMessages(contact, contacts) ==
    LET call     == [NoCall EXCEPT !.op = "get_recent_messages", !.input = contact]
        stripped == strip(contact)
        recent   == get_recent_messages_recent_matches
        how      == SelectionOutcome(stripped, recent)
        chosen   == SelectedContact(stripped, recent)
        \* after the contact:N block
        picked   == IF IsSelection(stripped) THEN [call EXCEPT !.picked = Some(chosen)]
                    ELSE call
        contact1 == IF IsSelection(stripped) THEN chosen.phone ELSE stripped
        \* the name block
        matches  == find_contact_by_name(contact1, contacts)
        looked   == [picked EXCEPT
                        !.accessed = TRUE,
                        !.queried = CacheIsStale,
                        !.resolved = TRUE,
                        !.matches = matches]
    IN  IF contact = <<>>
        THEN [store |-> FALSE, call |-> ReadMessages(call, FALSE, <<>>, contacts)]
        ELSE IF IsSelection(stripped) /\ how # "selected"
        THEN [store |-> FALSE, call |-> [call EXCEPT !.outcome = how]]
        ELSE IF LooksLikeNumberOrEmail(contact1)
        THEN [store |-> FALSE, call |-> ReadMessages(picked, TRUE, contact1, contacts)]
        ELSE IF matches = <<>>
        THEN [store |-> FALSE, call |-> [looked EXCEPT !.outcome = "not_found"]]
        ELSE IF Len(matches) = 1
        THEN [store |-> FALSE, call |-> ReadMessages(looked, TRUE, matches[1].phone, contacts)]
        ELSE [store |-> TRUE, call |-> [looked EXCEPT !.outcome = "ambiguous"]]

get_recent_messages(contact) ==
    \E done \in { GetRecentMessages(contact, get_cached_contacts.contacts) } :
        /\ done.call.accessed => MayAccessCache
        /\ IF done.call.accessed THEN CacheAccessed ELSE CacheUntouched
        /\ get_recent_messages_recent_matches' =
              IF done.store THEN done.call.matches
              ELSE get_recent_messages_recent_matches
        /\ ev' = done.call
        /\ UNCHANGED << envVars, inflight >>
        /\ UNCHANGED send_message_recent_matches

-----------------------------------------------------------------------------
(* The system, and the parts of it that are explored.                      *)

\* the calls that read the directory and leave the recent matches alone
DirectoryCalls ==
    \/ \E name \in NameInputs : tool_find_contact(name)
    \/ tool_check_contacts
    \/ check_addressbook_access

\* the calls that take a recipient or contact argument
RecipientCalls ==
    \/ \E recipient \in RecipientInputs, message \in MessageInputs :
          send_message(recipient, message)
    \/ \E contact \in RecipientInputs \cup { <<>> } : get_recent_messages(contact)

\* the send tool as the server registers it
ToolSendCalls ==
    \E recipient \in RecipientInputs, message \in MessageInputs,
       group_chat \in GroupChatInputs :
        tool_send_message(recipient, message, group_chat)

\* Any call, at any time, in any state of the stores.
Next ==
    \/ Tick
    \/ StoreChange
    \/ MessagesDbChange
    \/ DirectoryCalls
    \/ RecipientCalls
    \/ ToolSendCalls

Spec == Init /\ [][Next]_vars

\* The directory cache under a changing contacts store and a running clock.
InitDirectory ==
    /\ storeRows \in StoreSnapshots
    /\ storeMode \in StoreModes
    /\ messagesDbUp = TRUE
    /\ messageRows = MessageLog
    /\ Started

NextDirectory ==
    \/ Tick
    \/ StoreChange
    \/ DirectoryCalls

SpecDirectory == InitDirectory /\ [][NextDirectory]_vars

\* Contact selection: every call with a recipient, and the find-contact
\* tool, over an address book that stays as it is.
InitSelection ==
    /\ storeRows \in SelectionSnapshots
    /\ storeMode = "direct"
    /\ messagesDbUp \in BOOLEAN
    /\ messageRows = MessageLog
    /\ Started

NextSelection ==
    \/ \E name \in NameInputs : tool_find_contact(name)
    \/ RecipientCalls

SpecSelection == InitSelection /\ [][NextSelection]_vars

\* Sending: the send function as the module exports it and the send tool
\* as the server registers it, over an address book that stays as it is.
InitSend ==
    /\ storeRows \in SelectionSnapshots
    /\ storeMode = "direct"
    /\ messagesDbUp = TRUE
    /\ messageRows = MessageLog
    /\ Started

NextSend ==
    \/ \E recipient \in RecipientInputs, message \in MessageInputs :
          send_message(recipient, message)
    \/ ToolSendCalls

SpecSend == InitSend /\ [][NextSend]_vars

\* Recipients that hold no digit and no letter: the empty string, blanks,
\* and strings of the punctuation a phone number may carry.
BlankInputs ==
    { <<>>, << " " >>, << " ", " " >>, << "+" >>,
      << "+", "-", " ", "(", ")" >>, << "(", ")" >> }

\* send_message with any recipient, the blank ones included.
NextRecipients ==
    \E recipient \in RecipientInputs \cup BlankInputs, message \in MessageInputs :
        send_message(recipient, message)

SpecRecipients == InitSend /\ [][NextRecipients]_vars

\* Directory construction from odd rows: every short sequence of rows from
\* a pool with a missing phone, missing names, a blank name, a phone
\* without digits and phones with an X-IMAGETYPE suffix, read in-process or
\* through the command line.
\* the rows: 1 no phone, 2 no name, 3 a blank name, 4 a phone without
\* digits, 5 a phone with an image-metadata suffix, 6 a phone that is only
\* the suffix, 7 a blank first name and a punctuated phone
IngestRows ==
    << Row_NoPhone,
       [first_name |-> <<>>, last_name |-> <<>>, phone |-> << "5", "5" >>],
       [first_name |-> << " " >>, last_name |-> <<>>, phone |-> << "5", "6" >>],
       [first_name |-> Str_Ann, last_name |-> <<>>, phone |-> << "n", "/", "a" >>],
       [first_name |-> Str_Ann, last_name |-> <<>>,
        phone |-> << "4", "2" >> \o XIMAGETYPE \o << "7" >>],
       [first_name |-> Str_Ann, last_name |-> <<>>,
        phone |-> XIMAGETYPE \o << "7" >>],
       [first_name |-> << " " >>, last_name |-> << "B", "o" >>,
        phone |-> << "(", "5", ")", " ", "5" >>] >>

MaxIngestRows == 3

IngestSnapshots ==
    UNION { [1..n -> { IngestRows[i] : i \in 1..Len(IngestRows) }] :
              n \in 0..MaxIngestRows }

InitIngest ==
    /\ storeRows \in IngestSnapshots
    /\ storeMode \in { "direct", "cli" }
    /\ messagesDbUp = TRUE
    /\ messageRows = MessageLog
    /\ Started

NextIngest ==
    \/ tool_check_contacts
    \/ check_addressbook_access

SpecIngest == InitIngest /\ [][NextIngest]_vars

\* Two threads in send_message: one selects with contact:N, step by step,
\* while the other resolves names; nothing in the module orders them.
NextRace ==
    \/ \E recipient \in SelectionInputs, message \in MessageInputs :
          send_message_select_check(recipient, message)
    \/ send_message_select_take
    \/ \E recipient \in NameInputs, message \in MessageInputs :
          send_message(recipient, message)

SpecRace == InitSend /\ [][NextRace]_vars

\* One session: name resolutions, selections, direct requests and
\* directory refreshes in any order while the clock runs.
In_EmailSmith == << "j", "@", "s", "m", "i", "t", "h" >>

SessionInputs ==
    { In_JohnSmit, In_DylanWesthimer, In_Number, In_EmailSmith,
      Str_contact \o Decimal(1), Str_contact \o Decimal(MaxMatches + 1) }

InitSession ==
    /\ storeRows \in SelectionSnapshots
    /\ storeMode = "direct"
    /\ messagesDbUp = TRUE
    /\ messageRows = MessageLog
    /\ Started

NextSession ==
    \/ Tick
    \/ tool_check_contacts
    \/ \E recipient \in SessionInputs, message \in MessageInputs :
          send_message(recipient, message)
    \/ \E contact \in SessionInputs : get_recent_messages(contact)

SpecSession == InitSession /\ [][NextSession]_vars

\* Name resolution over every small address book: the names are the
\* strings over ResolveAlphabet, contact k has the phone number "k".
ResolveAlphabet == { "a", "b" }

MaxNameLen == 2

MaxContacts == 2

MaxQueryLen == 2

StringsUpTo(n) == UNION { [1..k -> ResolveAlphabet] : k \in 0..n }

ResolveNames == StringsUpTo(MaxNameLen) \ { <<>> }

ResolveStores ==
    UNION { { [k \in 1..n |-> [first_name |-> names[k], last_name |-> <<>>,
                               phone |-> Decimal(k)]] :
              names \in [1..n -> ResolveNames] } : n \in 1..MaxContacts }

ResolveQueries == StringsUpTo(MaxQueryLen)

InitResolve ==
    /\ storeRows \in ResolveStores
    /\ storeMode = "direct"
    /\ messagesDbUp = TRUE
    /\ messageRows = MessageLog
    /\ Started

\* One resolution per run, on the directory as it is loaded from the store.
NextResolve ==
    \E name \in ResolveQueries : _CONTACTS_CACHE = None /\ tool_find_contact(name)

SpecResolve == InitResolve /\ [][NextResolve]_vars

\* Reading the message log: every short sequence of message rows, over
\* address books whose keys the handles of the rows hit directly, through
\* the country-code variants, or not at all.
Row_Amy == [first_name |-> << "A", "m", "y" >>, last_name |-> <<>>,
            phone |-> << "+", "4", "4", " ", "7", "7" >>]

Row_Bo == [first_name |-> << "B", "o" >>, last_name |-> <<>>,
           phone |-> << "3", "1", "0", "5", "5", "5", "1", "2", "3", "4", "5" >>]

ReadSnapshots ==
    { << Row_Smith, Row_Smithe >>,
      << Row_Amy, Row_Bo >>,
      << Row_Dylan >> }

Text_yo == << "y", "o" >>

RowPool ==
    { [text |-> Text_hi, is_from_me |-> TRUE,  handle_id |-> 1],
      [text |-> <<>>,    is_from_me |-> FALSE, handle_id |-> 1],
      [text |-> Text_yo, is_from_me |-> FALSE, handle_id |-> 2],
      [text |-> Text_hi, is_from_me |-> FALSE, handle_id |-> 3],
      [text |-> Text_yo, is_from_me |-> FALSE, handle_id |-> 4],
      [text |-> Text_hi, is_from_me |-> FALSE, handle_id |-> 5],
      [text |-> Text_yo, is_from_me |-> FALSE, handle_id |-> 6],
      [text |-> Text_hi, is_from_me |-> FALSE, handle_id |-> NoHandle] }

MaxRows == 2

MessageLogs == UNION { [1..n -> RowPool] : n \in 0..MaxRows }

In_Email == << "a", "@", "b" >>

\* no filter, a number, an e-mail address, a name
ReadInputs == { <<>>, In_Number, In_Email, In_DylanWesthimer }

InitRead ==
    /\ storeRows \in ReadSnapshots
    /\ storeMode = "direct"
    /\ messagesDbUp \in BOOLEAN
    /\ messageRows \in MessageLogs
    /\ Started

\* One read per run, of the stores as they are.
NextRead == \E contact \in ReadInputs : ev = NoCall /\ get_recent_messages(contact)

SpecRead == InitRead /\ [][NextRead]_vars

-----------------------------------------------------------------------------
(* Properties of the directory cache (SpecDirectory)                       *)

\* The step is a call of get_cached_contacts() that read the contacts store.
StoreRead == ev'.accessed /\ ev'.queried /\ refreshes' = refreshes + 1

\* The step is a call that went through get_cached_contacts().
CacheRead == ev'.accessed /\ (ev' # ev \/ refreshes' # refreshes)

\* C1: a refresh that fails (the contacts store cannot be read) while the
\* cache holds a non-empty snapshot leaves get_cached_contacts returning
\* that snapshot's phone-to-name entries.
C1_FailedRefreshKeepsSnapshot ==
    [][ ( /\ StoreRead
          /\ _CONTACTS_CACHE # None
          /\ The(_CONTACTS_CACHE) # <<>>
          /\ RefreshFails(storeMode, storeRows) )
        => _CONTACTS_CACHE' = _CONTACTS_CACHE ]_vars

\* C2: whenever a forward map is there to be read, it and the reverse index
\* were produced by the same refresh.
C2_MapsFromSameRefresh ==
    _CONTACTS_CACHE # None => cacheRefresh = reverseRefresh

\* C3: every phone key k of the forward map, with entries[k] = n, is in the
\* reverse index's phone list for n.
C3_ForwardKeysInReverseIndex ==
    _CONTACTS_CACHE # None =>
        \A i \in 1..Len(The(_CONTACTS_CACHE)) :
            LET k == The(_CONTACTS_CACHE)[i].key
                n == The(_CONTACTS_CACHE)[i].value
            IN  /\ HasKey(_NAME_TO_NUMBERS_MAP, n)
                /\ \E j \in 1..Len(Lookup(_NAME_TO_NUMBERS_MAP, n)) :
                       Lookup(_NAME_TO_NUMBERS_MAP, n)[j] = k

\* C4: get_cached_contacts reads the contacts store if and only if nothing
\* is cached yet or now - _LAST_CACHE_UPDATE > 300; an access that does not
\* read the store leaves the snapshot and its time stamp as they are, and
\* after a read of the store the time stamp is the time of the access.
C4_TTLStaleness ==
    [][ CacheRead =>
          IF _CONTACTS_CACHE = None \/ now - _LAST_CACHE_UPDATE > 300
          THEN /\ refreshes' = refreshes + 1
               /\ ev'.queried
               /\ _LAST_CACHE_UPDATE' = now
               /\ _CONTACTS_CACHE' =
                     Some(get_addressbook_contacts(storeMode, storeRows,
                                                   _NAME_TO_NUMBERS_MAP).contacts_map)
          ELSE /\ refreshes' = refreshes
               /\ ~ev'.queried
               /\ _LAST_CACHE_UPDATE' = _LAST_CACHE_UPDATE
               /\ _CONTACTS_CACHE' = _CONTACTS_CACHE ]_vars

\* An access exactly one TTL after the refresh was served from the cache
\* although the contacts store has changed since.
C4_Witness ==
    /\ ev.accessed
    /\ ~ev.queried
    /\ now - _LAST_CACHE_UPDATE = _CACHE_TTL
    /\ _CONTACTS_CACHE #
          Some(get_addressbook_contacts(storeMode, storeRows,
                                        _NAME_TO_NUMBERS_MAP).contacts_map)

\* The directory of scenario A: the one row Dylan Westhimer, +13108820189.
ScenarioA_Directory == process_contacts(<< Row_Dylan >>).contacts_map

ScenarioA_Candidate ==
    [name  |-> In_DylanWesthimer,
     phone |-> << "1", "3", "1", "0", "8", "8", "2", "0", "1", "8", "9" >>,
     score |-> [n |-> 1, d |-> 1]]

\* The last call resolved the name query against the directory of scenario A.
ScenarioA_Resolved(query) ==
    /\ ev.op = "tool_find_contact"
    /\ ev.input = query
    /\ _CONTACTS_CACHE = Some(ScenarioA_Directory)

\* C10, as claimed: with the single contact Dylan Westhimer, +13108820189,
\* the query "dylan" returns exactly one candidate, Dylan Westhimer with
\* phone key 13108820189 and score 1.0.
C10_ScenarioA_Original ==
    ScenarioA_Resolved(In_dylan) => ev.matches = << ScenarioA_Candidate >>

\* C10, amended: with that single contact the query "dylan" returns no
\* candidate, and the query "Dylan Westhimer" returns exactly one candidate,
\* Dylan Westhimer with phone key 13108820189 and score 1.0.
C10_ScenarioA ==
    /\ ScenarioA_Resolved(In_dylan) => ev.matches = <<>>
    /\ ScenarioA_Resolved(In_DylanWesthimer) => ev.matches = << ScenarioA_Candidate >>

C10_Witness ==
    /\ ScenarioA_Resolved(In_dylan)
    /\ storeRows = << Row_Dylan >>
    /\ ev.outcome = "not_found"

-----------------------------------------------------------------------------
(* Properties of contact selection (SpecSelection)                         *)

\* Both recent_matches attributes hold the ordered result matches.
RecordedAs(matches) ==
    /\ send_message_recent_matches = matches
    /\ get_recent_messages_recent_matches = matches

\* C5: a name resolution that yields two or more candidates, issued by
\* send_message, by get_recent_messages or by the find-contact tool, leaves
\* exactly that ordered result as the match list the next contact:N of
\* either operation selects from.
C5_AmbiguousResultRecorded ==
    (ev.resolved /\ Len(ev.matches) >= 2) => RecordedAs(ev.matches)

\* The last call was op(contact:i) with an integer i, and recent is the
\* match list of op.
SelectionCall(op, recent) ==
    /\ ev.op = op
    /\ IsSelection(strip(ev.input))
    /\ SelectionNumber(strip(ev.input)).ok
    /\ recent = IF op = "send_message" THEN send_message_recent_matches
                ELSE get_recent_messages_recent_matches

Operations == { "send_message", "get_recent_messages" }

\* what the operations return when contact:i selects nothing
OutOfRangeOutcomes == { "no_recent_matches", "invalid_selection" }

\* C6: with a stored match list of length L, contact:i selects nothing and
\* ends with an out-of-range result when L = 0, when i <= 0 and when i > L
\* (nothing is sent or looked up), and for 1 <= i <= L it selects exactly
\* the i-th stored candidate.
C6_SelectionByIndex ==
    \A op \in Operations :
        LET recent == IF op = "send_message" THEN send_message_recent_matches
                      ELSE get_recent_messages_recent_matches
            i == SelectionNumber(strip(ev.input)).value
        IN  SelectionCall(op, recent) =>
                IF Len(recent) = 0 \/ i <= 0 \/ i > Len(recent)
                THEN /\ ev.outcome \in OutOfRangeOutcomes
                     /\ ev.picked = None
                     /\ ev.target = None
                     /\ ev.sends = 0
                ELSE /\ ev.picked = Some(recent[i])
                     /\ ev.outcome \notin OutOfRangeOutcomes

\* get_recent_messages took contact:i with i one past a list of at least
\* two matches, and send_message has selected from its own list before.
C6_Witness ==
    /\ ev.op = "get_recent_messages"
    /\ Len(get_recent_messages_recent_matches) >= 2
    /\ IsSelection(strip(ev.input))
    /\ SelectionNumber(strip(ev.input)).ok
    /\ SelectionNumber(strip(ev.input)).value
          = Len(get_recent_messages_recent_matches) + 1
    /\ ev.outcome = "invalid_selection"
    /\ send_message_recent_matches # <<>>

\* matches is ranked: no candidate scores higher than the one before it
Ranked(matches) ==
    \A k \in 1..(Len(matches) - 1) :
        matches[k].score.n * matches[k + 1].score.d
            >= matches[k + 1].score.n * matches[k].score.d

\* C7: when the name resolution of an operation has returned k >= 2
\* candidates, they are ranked highest score first, and a call of the same
\* operation with contact:i (1 <= i <= k) that follows acts on the phone key
\* of the i-th of them; send_message hands that phone key to the transport.
C7_TwoStepDisambiguation ==
    [][ ( /\ ev.op \in Operations
          /\ ev.resolved
          /\ Len(ev.matches) >= 2
          /\ ev'.op = ev.op
          /\ IsSelection(strip(ev'.input))
          /\ SelectionNumber(strip(ev'.input)).ok
          /\ SelectionNumber(strip(ev'.input)).value \in 1..Len(ev.matches) )
        => LET i == SelectionNumber(strip(ev'.input)).value
           IN  /\ Ranked(ev.matches)
               /\ ev'.picked = Some(ev.matches[i])
               /\ ev'.target = Some(ev.matches[i].phone)
               /\ ev'.op = "send_message" => ev'.sends = 1 ]_vars

\* send_message("contact:2") went to the transport with the phone key of
\* the second of three ranked candidates, whose scores differ.
C7_Witness ==
    /\ ev.op = "send_message"
    /\ ev.input = Str_contact \o << "2" >>
    /\ Len(send_message_recent_matches) = 3
    /\ ev.sends = 1
    /\ ev.target = Some(send_message_recent_matches[2].phone)
    /\ send_message_recent_matches[1].score # send_message_recent_matches[3].score
    /\ ev.outcome = "sent"

-----------------------------------------------------------------------------
(* Properties of the name resolver (SpecResolve)                           *)

\* the candidates of the last resolution: (name, phone) of the directory
ResolvedCandidates == Candidates(The(_CONTACTS_CACHE))

\* C8: the sequence find_contact_by_name returns is sorted by non-increasing
\* score, every returned candidate is an entry of the directory with a score
\* of at least 0.6, and no entry is returned twice.
C8_RankedAboveThreshold ==
    ev.resolved =>
        /\ Ranked(ev.matches)
        /\ \A k \in 1..Len(ev.matches) :
              /\ 10 * ev.matches[k].score.n >= 6 * ev.matches[k].score.d
              /\ \E c \in 1..Len(ResolvedCandidates) :
                    /\ ResolvedCandidates[c].name = ev.matches[k].name
                    /\ ResolvedCandidates[c].phone = ev.matches[k].phone
        /\ \A k, l \in 1..Len(ev.matches) :
              ev.matches[k].phone = ev.matches[l].phone => k = l

\* Two candidates were returned, the later entry of the directory first
\* because its score is higher.
C8_Witness ==
    /\ ev.resolved
    /\ Len(ev.matches) = 2
    /\ ev.matches[1].phone = << "2" >>
    /\ ev.matches[2].phone = << "1" >>
    /\ ev.matches[1].score # ev.matches[2].score

\* C9: for every candidate whose cleaned, lower-cased name has the cleaned,
\* lower-cased query as a substring without being equal to it, the candidate
\* is returned if and only if len(query)/len(candidate) * 0.9 >= 0.6, and
\* when returned its score is exactly that value.
C9_SubstringTierDecides ==
    ev.resolved =>
        \A c \in 1..Len(ResolvedCandidates) :
            LET query     == lower(clean_name(ev.input))
                candidate == lower(clean_name(ResolvedCandidates[c].name))
                returned  == {k \in 1..Len(ev.matches) :
                                 ev.matches[k].phone = ResolvedCandidates[c].phone}
            IN  (IsSubstring(query, candidate) /\ query # candidate) =>
                    /\ returned # {} <=> 9 * Len(query) * 10 >= 6 * 10 * Len(candidate)
                    /\ \A k \in returned :
                          ev.matches[k].score.n * 10 * Len(candidate)
                              = 9 * Len(query) * ev.matches[k].score.d

-----------------------------------------------------------------------------
(* Properties of reading the message log (SpecRead)                        *)

\* The last call was get_recent_messages without a contact filter and it
\* returned a transcript.
UnfilteredTranscript ==
    /\ ev.op = "get_recent_messages"
    /\ ev.input = <<>>
    /\ ev.outcome = "transcript"

\* the rows with a text, in the order of the store
TextRows == SelectSeq(messageRows, LAMBDA m : m.text # <<>>)

\* the directory the last call read
Directory == The(_CONTACTS_CACHE)

\* The keys C11 lists for a normalized key: the key; its 10-digit suffix
\* when it has exactly 11 digits and starts with "1"; the key prefixed with
\* "1" when it has exactly 10 digits.
ClaimedProbes(key) ==
    << key >>
    \o (IF Len(key) = 11 /\ Head(key) = "1" THEN << Tail(key) >> ELSE << >>)
    \o (IF Len(key) = 10 THEN << << "1" >> \o key >> ELSE << >>)

\* the probes of the list that are keys of the directory
ClaimedHits(key) == SelectSeq(ClaimedProbes(key), LAMBDA k : HasKey(Directory, k))

\* C11: the sender of a row is looked up in the directory under the
\* normalized key, then (11 digits starting with "1") under its 10-digit
\* suffix, then (10 digits) under the key prefixed with "1", first hit wins,
\* and under no other key: without a hit the label is not a directory name.
C11_DirectNumberProbes ==
    UnfilteredTranscript =>
        \A k \in 1..Len(TextRows) :
            LET row == TextRows[k]
                key == normalize_phone_number(HandleTable[row.handle_id])
            IN  (~row.is_from_me /\ row.handle_id # NoHandle) =>
                    IF ClaimedHits(key) # <<>>
                    THEN ev.lines[k].sender = Lookup(Directory, ClaimedHits(key)[1])
                    ELSE ev.lines[k].sender \in
                            { ChatDisplayName[row.handle_id], HandleTable[row.handle_id] }

\* The last call was get_recent_messages and it got as far as a query of
\* the message store.
ReadQueriedStore ==
    /\ ev.op = "get_recent_messages"
    /\ ev.outcome \in { "no_history", "contact_not_found", "db_error",
                        "no_messages", "transcript" }

\* C12: a get_recent_messages call, with or without a contact filter, whose
\* query of the message store fails answers with the store-access error: not
\* with "no messages", "no history" or "could not find the contact".
C12_StoreFailureSurfaces ==
    (ReadQueriedStore /\ ~messagesDbUp) => ev.outcome = "db_error"

\* The rows the store returned to the last call: all of them, or those of
\* the handle of the contact filter.
ReturnedRows ==
    IF ev.target = None THEN messageRows
    ELSE SelectSeq(messageRows,
                   LAMBDA m : Some(m.handle_id) = find_handle_by_phone(The(ev.target)))

\* the returned rows that have a text
ReturnedTextRows == SelectSeq(ReturnedRows, LAMBDA m : m.text # <<>>)

\* C13: the transcript has exactly one line per returned row with a
\* non-empty text, in the order of the rows, and none for a row without
\* text; "no messages found" is the answer if and only if no returned row
\* has a text.
C13_TranscriptFormatting ==
    (ev.op = "get_recent_messages" /\ ev.outcome \in { "transcript", "no_messages" }) =>
        /\ Len(ev.lines) = Len(ReturnedTextRows)
        /\ \A k \in 1..Len(ReturnedTextRows) :
              /\ ev.lines[k].text = ReturnedTextRows[k].text
              /\ ReturnedTextRows[k].is_from_me <=> ev.lines[k].sender = Str_You
        /\ ev.outcome = "no_messages" <=> ReturnedTextRows = <<>>

\* Of two rows the first has no text and the second has: one line.
C13_Witness ==
    /\ ev.op = "get_recent_messages"
    /\ ev.outcome = "transcript"
    /\ Len(messageRows) >= 2
    /\ messageRows[1].text = <<>>
    /\ Len(ev.lines) = Len(messageRows) - 1

-----------------------------------------------------------------------------
(* Properties of sending (SpecSend)                                        *)

C15_ToolSendsToNumber ==
    (ev.op = "tool_send_message" /\ LooksLikeNumber(strip(ev.input))) =>
        /\ ev.sends = 1
        /\ ev.target = Some(safe_recipient(normalize_phone_number(strip(ev.input))))
        /\ ev.body # None
        /\ ev.outcome \in { "sent", "send_error", "unknown_result" }

-----------------------------------------------------------------------------
(* Properties of directory construction (SpecIngest)                       *)

\* the part of a stored phone number before an image-metadata marker
BeforeMarker(phone) ==
    IF IsSubstring(XIMAGETYPE, phone) THEN BeforeFirst(phone, XIMAGETYPE) ELSE phone

\* the digits of a string, in order
DigitsOf(s) == SelectSeq(s, LAMBDA c : c \in DigitChars)

\* a row the directory may keep: it has a phone with a digit before any
\* marker, and a first or last name that is not blank
Keepable(row) ==
    /\ DigitsOf(BeforeMarker(row.phone)) # <<>>
    /\ LET name == row.first_name \o row.last_name
       IN  \E k \in 1..Len(name) : name[k] # " "

\* C16: after a refresh from any sequence of rows, every key of the
\* directory is a non-empty string of digits, every display name is
\* non-empty, and every entry comes from a row that has both; the same
\* holds for the reverse map.
C16_DirectoryWellFormed ==
    /\ _CONTACTS_CACHE # None =>
          \A i \in 1..Len(The(_CONTACTS_CACHE)) :
             LET e == The(_CONTACTS_CACHE)[i]
             IN  /\ e.key # <<>>
                 /\ \A k \in 1..Len(e.key) : e.key[k] \in DigitChars
                 /\ e.value # <<>>
                 /\ \E r \in 1..Len(storeRows) :
                       /\ Keepable(storeRows[r])
                       /\ e.key = DigitsOf(BeforeMarker(storeRows[r].phone))
    /\ \A i \in 1..Len(_NAME_TO_NUMBERS_MAP) :
          LET e == _NAME_TO_NUMBERS_MAP[i]
          IN  /\ e.key # <<>>
              /\ \A n \in 1..Len(e.value) :
                    /\ e.value[n] # <<>>
                    /\ \A k \in 1..Len(e.value[n]) : e.value[n][k] \in DigitChars

C16_Witness ==
    /\ _CONTACTS_CACHE # None
    /\ The(_CONTACTS_CACHE) =
          << [key |-> << "4", "2" >>, value |-> Str_Ann] >>
    /\ storeRows = << IngestRows[4], IngestRows[5], IngestRows[3] >>

-----------------------------------------------------------------------------
(* Properties of the selection session (SpecSelection)                     *)

\* the call just made is op(contact:i) with 1 <= i <= Len(matches)
SelectsFrom(op, matches) ==
    /\ ev'.op = op
    /\ IsSelection(strip(ev'.input))
    /\ SelectionNumber(strip(ev'.input)).ok
    /\ SelectionNumber(strip(ev'.input)).value \in 1..Len(matches)

\* C17: the match list recorded by an ambiguous name resolution of one
\* operation is the list from which a contact:N of the other operation
\* that follows selects.
C17_SharedSlot ==
    [][ \A op \in Operations, other \in Operations :
          ( /\ op # other
            /\ ev.op = op
            /\ ev.resolved
            /\ Len(ev.matches) >= 2
            /\ SelectsFrom(other, ev.matches) )
          => ev'.picked
                = Some(ev.matches[SelectionNumber(strip(ev'.input)).value]) ]_vars

\* a request that names its target directly: a phone number or an e-mail
\* address
DirectRequest(input) ==
    \/ LooksLikeNumber(strip(input))
    \/ \E k \in 1..Len(input) : input[k] = "@"

\* the call just made is one the session is only read by, or not used by:
\* a contact:N, a direct request, a directory listing, or a name resolution
\* that found at most one contact
LeavesSessionAlone ==
    \/ ev'.op = "tool_check_contacts"
    \/ /\ ev'.op \in Operations
       /\ \/ IsSelection(strip(ev'.input))
          \/ DirectRequest(ev'.input)
          \/ ev'.resolved /\ Len(ev'.matches) <= 1

\* C18 (SpecSession): a contact:N, a name resolution with at most one
\* match, a direct phone or e-mail request and a directory refresh leave
\* both stored match lists as they were, and a valid contact:N repeated
\* right away selects the same candidate again.
C18_SelectionReadOnly ==
    [][ /\ LeavesSessionAlone =>
              UNCHANGED << send_message_recent_matches,
                           get_recent_messages_recent_matches >>
        /\ ( /\ ev.op \in Operations
             /\ ev'.op = ev.op
             /\ ev'.input = ev.input
             /\ IsSelection(strip(ev.input))
             /\ ev.picked # None )
           => ev'.picked = ev.picked ]_vars

-----------------------------------------------------------------------------
(* Properties of concurrent selection (SpecRace)                           *)

\* C19: in every interleaving, the candidate a contact:N selection acts on
\* is the element, at its index, of the match list its index was checked
\* against.
C19_SelectionAtomic ==
    [][ (inflight # None /\ inflight' = None) =>
            ev'.picked
               = Some(The(inflight).checked[The(inflight).index + 1]) ]_vars

\* C20 (SpecRead): the sender label of a transcript row is the self marker
\* when the row is from me; otherwise the directory name under the first
\* direct-number probe that hits; otherwise the chat display name of the
\* sender when it is not empty; otherwise the raw sender key.
C20_SenderPrecedence ==
    UnfilteredTranscript =>
        \A k \in 1..Len(TextRows) :
            LET row == TextRows[k]
                key == normalize_phone_number(HandleTable[row.handle_id])
            IN  IF row.is_from_me THEN ev.lines[k].sender = Str_You
                ELSE row.handle_id # NoHandle =>
                        ev.lines[k].sender =
                            IF ClaimedHits(key) # <<>>
                            THEN Lookup(Directory, ClaimedHits(key)[1])
                            ELSE IF ChatDisplayName[row.handle_id] # <<>>
                            THEN ChatDisplayName[row.handle_id]
                            ELSE HandleTable[row.handle_id]

-----------------------------------------------------------------------------
(* Properties of the recipient of a send (SpecSelection, SpecRecipients)   *)

\* the recipient of the last send_message names no unique contact: a
\* contact:N that is no integer, that finds no recorded matches or that is
\* out of range, or a name that resolved to no candidate or to several
NoUniqueRecipient ==
    LET r == strip(ev.input)
        n == SelectionNumber(r)
    IN  IF IsSelection(r)
        THEN \/ ~n.ok
             \/ send_message_recent_matches = <<>>
             \/ n.value \notin 1..Len(send_message_recent_matches)
        ELSE ~LooksLikeNumber(r) /\ Len(ev.matches) # 1

\* C21: a send_message whose recipient is a name with no candidate or with
\* two or more, a contact:N without recorded matches, an out-of-range
\* contact:N or a contact:N that is no integer never runs the send script:
\* nothing is sent and no recipient or body is handed over.
C21_NoSendWithoutUniqueRecipient ==
    (ev.op = "send_message" /\ NoUniqueRecipient) =>
        /\ ev.sends = 0
        /\ ev.attempts = 0
        /\ ev.script = "none"
        /\ ev.target = None
        /\ ev.body = None
        /\ ev.outcome \in { "not_found", "ambiguous", "no_recent_matches",
                            "invalid_selection", "select_error" }

\* send_message found several candidates for a name, recorded them and
\* did not send
C21_Witness ==
    /\ ev.op = "send_message"
    /\ ev.outcome = "ambiguous"
    /\ Len(ev.matches) >= 2
    /\ send_message_recent_matches = ev.matches
    /\ ev.sends = 0

\* C22 (SpecRecipients): whenever send_message runs the send script, the
\* recipient identifier it hands over is not empty.
C22_RecipientNeverEmpty ==
    (ev.op = "send_message" /\ ev.sends >= 1) =>
        (ev.target # None /\ The(ev.target) # <<>>)

=============================================================================
